---- MODULE Spec2Model ----
(***************************************************************************)
(* Model of the m3u8 download pipeline of src/lib/utils.ts:                *)
(*   downloadPlaylist -> downloadVideo -> downloadInParallel/processTask   *)
(*   -> mergeArrayBuffers -> saveBlobToFile.                               *)
(*                                                                         *)
(* JavaScript runs one continuation at a time, so every action below is    *)
(* the code between two awaits.  The environment (the fetches and the      *)
(* holder of the AbortController) acts between the continuations.          *)
(* The progress callback is assumed not to throw.                          *)
(***************************************************************************)
EXTENDS Integers, Sequences, FiniteSets, TLC

\* ---- bounds ----
MaxEpisodes   == 2
MaxSegments   == 2
MaxConcurrent == 2
MaxFailures   == 1
MaxLines      == 4

Episodes == 0 .. (MaxEpisodes - 1)
Workers  == 1 .. MaxConcurrent

VARIABLES
  episodes,        \* episodes.length of the downloadPlaylist call
  maxConcurrent,   \* the maxConcurrent argument
  aborted,         \* signal.aborted
  plPc,            \* position of downloadPlaylist
  i,               \* loop variable of downloadPlaylist
  dvPc,            \* dvPc[e]: position of the downloadVideo call of episode e
  dvError,         \* dvError[e]: cause of the error downloadVideo(e) threw
  resolved,        \* resolved[e]: parseM3u8 has resolved for episode e
  tsUrls,          \* tsUrls[e]: result of parseM3u8, an array indexed from 0
  tsBuffers,       \* tsBuffers[e]: new Array(tsUrls.length), holes included
  downloadedCount, \* downloadedCount[e]
  taskQueue,       \* taskQueue[e]: sequence of <<index, tsUrl>>
  worker,          \* worker[e][w]: the w-th processTask chain of episode e
  fetchCalls,      \* fetchCalls[e][k]: calls of downloadTsSegment for segment k
  failures,        \* rejected segment fetches so far (token not set)
  outOfOrder,      \* outOfOrder[e]: a segment completed before a lower index
  progressLog,     \* progressLog[e]: the onProgress invocations, in order
  saved,           \* the saveBlobToFile invocations, in order
  playlist,        \* the text the server holds at M3u8Url, as lines
  callStack,       \* the m3u8Url of each pending parseM3u8 call, outermost first
  fetched,         \* the fetch(m3u8Url) calls of parseM3u8, in order
  parseResult      \* what the innermost settled parseM3u8 call gave

\* the state of a parseM3u8 call that is studied on its own (ParseSpec)
parser    == << playlist, callStack, fetched, parseResult >>

\* what no step of the download pipeline changes
args      == << episodes, maxConcurrent, parser >>
scheduler == << taskQueue, worker, fetchCalls >>
results   == << tsBuffers, downloadedCount, outOfOrder, progressLog >>

vars == << args, aborted, plPc, i, dvPc, dvError, resolved, tsUrls,
           scheduler, results, failures, saved >>

\* ---- values ----
Hole     == [filled |-> FALSE, bytes |-> << >>]
Filled(b) == [filled |-> TRUE, bytes |-> b]
NoTask   == << >>
Idle     == [pc |-> "none", task |-> NoTask]
Exited   == [pc |-> "exited", task |-> NoTask]
Fetching(task) == [pc |-> "fetching", task |-> task]

\* The locator of segment k of episode e, and the bytes the server holds
\* for a locator (segments differ in content and in length).
Url(e, k) == 16 * e + k + 1
SegmentData(url) == [j \in 1 .. ((url % 2) + 1) |-> url]

\* JavaScript array of length n, indexed from 0
NewArray(n) == [k \in 0 .. (n - 1) |-> Hole]
Length(arr) == Cardinality(DOMAIN arr)

\* mutant: the percentage is computed before downloadedCount++
RoundStale(x, y) == (200 * (x - 1) + y) \div (2 * y)

\* Math.round(x / y * 100) for x >= 0, y > 0
Round(x, y) == (200 * x + y) \div (2 * y)

\* ---- mergeArrayBuffers ----
RECURSIVE SumLengths(_, _)
\* buffers.reduce((acc, buffer) => acc + buffer.byteLength, 0): reduce
\* skips the holes of the array
SumLengths(buffers, n) ==
  IF n = 0 THEN 0
  ELSE SumLengths(buffers, n - 1)
       + (IF buffers[n - 1].filled THEN Len(buffers[n - 1].bytes) ELSE 0)

\* result.set(new Uint8Array(buffer), offset)
SetAt(result, src, offset) ==
  [j \in 1 .. Len(result) |->
     IF (j - 1 >= offset) /\ (j - 1 < offset + Len(src))
       THEN src[j - offset] ELSE result[j]]

RECURSIVE MergeLoopSkipHoles(_, _, _, _)
\* mutant: buffers.forEach(...), which skips the holes as reduce does
MergeLoopSkipHoles(buffers, k, result, offset) ==
  IF k = Length(buffers) THEN [ok |-> TRUE, bytes |-> result]
  ELSE IF ~buffers[k].filled
    THEN MergeLoopSkipHoles(buffers, k + 1, result, offset)
  ELSE MergeLoopSkipHoles(buffers, k + 1,
                          SetAt(result, buffers[k].bytes, offset),
                          offset + Len(buffers[k].bytes))

RECURSIVE MergeLoop(_, _, _, _)
\* for (const buffer of buffers): the iterator visits holes as undefined,
\* and undefined.byteLength throws a TypeError
MergeLoop(buffers, k, result, offset) ==
  IF k = Length(buffers) THEN [ok |-> TRUE, bytes |-> result]
  ELSE IF ~buffers[k].filled THEN [ok |-> FALSE, bytes |-> << >>]
  ELSE MergeLoop(buffers, k + 1, SetAt(result, buffers[k].bytes, offset),
                 offset + Len(buffers[k].bytes))

MergeArrayBuffers(buffers) ==
  LET totalSize == SumLengths(buffers, Length(buffers))
  IN  MergeLoop(buffers, 0, [j \in 1 .. totalSize |-> 0], 0)

\* tsBuffers.every((buffer) => buffer !== undefined): every() skips holes
AllDownloaded(buffers) ==
  \A k \in {j \in DOMAIN buffers : buffers[j].filled} : buffers[k].filled

\* ---- downloadInParallel / processTask ----
\* for (let i = 0; i < tsUrls.length; i++) taskQueue.push([i, tsUrls[i]])
InitialQueue(urls) == [k \in 1 .. Length(urls) |-> << k - 1, urls[k - 1] >>]

\* mutant: i <= Math.min(maxConcurrent, tsUrls.length)
NumWorkersOffByOne(c, n) == (IF c < n THEN c ELSE n) + 1

\* i < Math.min(maxConcurrent, tsUrls.length)
NumWorkers(c, n) == IF c < n THEN c ELSE n

\* mutant: const task = taskQueue[0], the task stays in the queue
ProcessTaskNoShift(queue, ab) ==
  IF ab THEN [queue |-> queue, worker |-> Exited]
  ELSE IF queue = << >> THEN [queue |-> queue, worker |-> Exited]
  ELSE [queue |-> queue, worker |-> Fetching(Head(queue))]

\* mutant: processTask without the check of signal.aborted
ProcessTaskNoAbortCheck(queue, ab) ==
  IF queue = << >> THEN [queue |-> queue, worker |-> Exited]
  ELSE [queue |-> Tail(queue), worker |-> Fetching(Head(queue))]

\* processTask up to its first await: the abort check, taskQueue.shift()
\* and the call of downloadTsSegment
ProcessTask(queue, ab) ==
  IF ab THEN [queue |-> queue, worker |-> Exited]
  ELSE IF queue = << >> THEN [queue |-> queue, worker |-> Exited]
  ELSE [queue |-> Tail(queue), worker |-> Fetching(Head(queue))]

\* mutant: the failed task is put back twice
RequeueTwice(queue, task) == << task, task >> \o queue

\* mutant: taskQueue.push([index, tsUrl]), the failed task goes to the back
RequeueAtBack(queue, task) == queue \o << task >>

\* mutant: the failed task is not put back
RequeueDropped(queue, task) == queue

\* taskQueue.unshift([index, tsUrl])
Requeue(queue, task) == << task >> \o queue

\* mutant: tsBuffers[downloadedCount] = buffer, the order of completion
StoreAtCompletion(buffers, index, count, buffer) ==
  [buffers EXCEPT ![count] = Filled(buffer)]

\* tsBuffers[index] = buffer
StoreBuffer(buffers, index, count, buffer) ==
  [buffers EXCEPT ![index] = Filled(buffer)]

\* the fetch calls after a worker moved from old to new
CountCall(calls, w) ==
  IF w.pc = "fetching"
    THEN [calls EXCEPT ![w.task[1]] = @ + 1] ELSE calls

RECURSIVE Spawn(_, _, _)
\* activeTasks.push(processTask()) for worker k .. n
Spawn(k, n, st) ==
  IF k > n THEN st
  ELSE LET r == ProcessTask(st.queue, st.ab)
       IN  Spawn(k + 1, n,
                 [st EXCEPT !.queue = r.queue,
                            !.workers[k] = r.worker,
                            !.calls = CountCall(st.calls, r.worker)])

\* mutant: the check of an empty list is missing
IsEmptyPlaylistNever(urls) == FALSE

\* if (tsUrls.length === 0)
IsEmptyPlaylist(urls) == Length(urls) = 0

\* mutant: downloadVideo(...) is called without await
NotAwaited(pc) == TRUE

\* await downloadVideo(...): the loop goes on when the call has settled
Awaited(pc) == pc \in {"returned", "threw"}

\* ---- parseM3u8 ----
\* A string is a sequence of tokens, so that trim, startsWith, includes,
\* substring and concatenation are computed on it; a text is the sequence
\* of its lines, text.split('\n').
Whitespace == {" ", "\t"}
HashTokens == {"#", "#EXTM3U", "#EXTINF:", "#EXT-X-STREAM-INF:"}
Digits     == {"0", "1", "2", "3"}

\* parseInt(s, 10) of a digit token
ParseInt(tok) ==
  CASE tok = "0" -> 0 [] tok = "1" -> 1 [] tok = "2" -> 2 [] tok = "3" -> 3

RECURSIVE TrimStart(_)
TrimStart(str) ==
  IF str # << >> /\ Head(str) \in Whitespace THEN TrimStart(Tail(str))
  ELSE str

RECURSIVE TrimEnd(_)
TrimEnd(str) ==
  IF str # << >> /\ str[Len(str)] \in Whitespace
    THEN TrimEnd(SubSeq(str, 1, Len(str) - 1))
  ELSE str

\* String.prototype.trim
Trim(str) == TrimEnd(TrimStart(str))

\* str.startsWith(tok) for the prefixes the code tests
StartsWith(str, tok) == str # << >> /\ Head(str) = tok
\* str.startsWith('#')
StartsWithHash(str) == str # << >> /\ Head(str) \in HashTokens

\* text.includes('#EXT-X-STREAM-INF'): anywhere in the text
IsMasterPlaylist(text) ==
  \E l \in 1 .. Len(text) : \E t \in 1 .. Len(text[l]) :
    text[l][t] = "#EXT-X-STREAM-INF:"

\* line.match(/BANDWIDTH=(\d+)/): the leftmost place of the line where
\* BANDWIDTH= is followed by digits, the end of AVERAGE-BANDWIDTH= included;
\* parseInt of the digits, 0 without a match
Bandwidth(line) ==
  LET matches == {p \in 1 .. (Len(line) - 1) :
                    line[p] = "BANDWIDTH=" /\ line[p + 1] \in Digits}
  IN  IF matches = {} THEN 0
      ELSE ParseInt(line[(CHOOSE p \in matches :
                            \A q \in matches : p <= q) + 1])

\* m3u8Url.substring(0, m3u8Url.lastIndexOf('/') + 1)
BaseUrl(m3u8Url) ==
  LET slashes == {p \in 1 .. Len(m3u8Url) : m3u8Url[p] \in {"/", "http://"}}
  IN  IF slashes = {} THEN << >>
      ELSE SubSeq(m3u8Url, 1,
                  CHOOSE p \in slashes : \A q \in slashes : q <= p)

\* `${urlObj.protocol}//${urlObj.host}` of new URL(m3u8Url), m3u8Url being
\* an absolute locator
Origin(m3u8Url) == SubSeq(m3u8Url, 1, 2)

\* the locator of a rendition, from the line after #EXT-X-STREAM-INF
PlaylistUrl(m3u8Url, nextLine) ==
  IF StartsWith(nextLine, "http://") THEN nextLine
  ELSE IF StartsWith(nextLine, "/") THEN Origin(m3u8Url) \o nextLine
  ELSE BaseUrl(m3u8Url) \o nextLine

\* the locator of a segment, from a line of a single-level playlist
TsUrl(m3u8Url, trimmedLine) ==
  IF StartsWith(trimmedLine, "http://") THEN trimmedLine
  ELSE IF StartsWith(trimmedLine, "/") THEN Origin(m3u8Url) \o trimmedLine
  ELSE BaseUrl(m3u8Url) \o trimmedLine

RECURSIVE MasterLoop(_, _, _, _)
\* for (let i = 0; i < masterLines.length; i++) of the master branch; i
\* counts from 1 here, and masterLines[i + 1]?.trim() past the end is
\* undefined, which is falsy as the empty string is
MasterLoop(m3u8Url, masterLines, j, qualityPlaylists) ==
  IF j > Len(masterLines) THEN qualityPlaylists
  ELSE
    LET line     == Trim(masterLines[j])
        nextLine == IF j + 1 <= Len(masterLines)
                      THEN Trim(masterLines[j + 1]) ELSE << >>
    IN  IF /\ StartsWith(line, "#EXT-X-STREAM-INF:")
           /\ nextLine # << >>
           /\ ~StartsWithHash(nextLine)
          THEN MasterLoop(m3u8Url, masterLines, j + 1,
                          Append(qualityPlaylists,
                                 [quality |-> Bandwidth(line),
                                  url |-> PlaylistUrl(m3u8Url, nextLine)]))
          ELSE MasterLoop(m3u8Url, masterLines, j + 1, qualityPlaylists)

\* insertion of entry x into a list sorted by falling quality, behind the
\* entries of the same quality
InsertByQuality(sorted, x) ==
  LET before == {p \in 0 .. Len(sorted) :
                   \A q \in 1 .. p : sorted[q].quality >= x.quality}
      at     == CHOOSE p \in before : \A q \in before : q <= p
  IN  SubSeq(sorted, 1, at) \o << x >> \o SubSeq(sorted, at + 1, Len(sorted))

RECURSIVE SortByQuality(_, _)
\* qualityPlaylists.sort((a, b) => b.quality - a.quality) of the first n
\* entries; Array.prototype.sort is stable
SortByQuality(qualityPlaylists, n) ==
  IF n = 0 THEN << >>
  ELSE InsertByQuality(SortByQuality(qualityPlaylists, n - 1),
                       qualityPlaylists[n])

RECURSIVE MediaLoopUnshift(_, _, _, _)
\* mutant: tsUrls.unshift(tsUrl)
MediaLoopUnshift(m3u8Url, lines, j, urls) ==
  IF j > Len(lines) THEN urls
  ELSE LET trimmedLine == Trim(lines[j])
       IN  IF trimmedLine # << >> /\ ~StartsWithHash(trimmedLine)
             THEN MediaLoopUnshift(m3u8Url, lines, j + 1,
                                   << TsUrl(m3u8Url, trimmedLine) >> \o urls)
             ELSE MediaLoopUnshift(m3u8Url, lines, j + 1, urls)

RECURSIVE MediaLoop(_, _, _, _)
\* for (const line of lines) of the single-level branch
MediaLoop(m3u8Url, lines, j, urls) ==
  IF j > Len(lines) THEN urls
  ELSE LET trimmedLine == Trim(lines[j])
       IN  IF trimmedLine # << >> /\ ~StartsWithHash(trimmedLine)
             THEN MediaLoop(m3u8Url, lines, j + 1,
                            Append(urls, TsUrl(m3u8Url, trimmedLine)))
             ELSE MediaLoop(m3u8Url, lines, j + 1, urls)

\* the outcomes of a parseM3u8 call
Pending        == [kind |-> "pending", value |-> << >>, message |-> << >>]
Resolved(urls) == [kind |-> "value", value |-> urls, message |-> << >>]
Rejected(msg)  == [kind |-> "error", value |-> << >>, message |-> msg]

\* catch (error) of parseM3u8: the message gets the parse-failed prefix
Wrap(msg) == << "parse failed: " >> \o msg

\* mutant: an empty list of segments is an error
MediaResultNonEmpty(urls) ==
  IF urls = << >> THEN Rejected(Wrap(<< "no segments" >>))
  ELSE Resolved(urls)

\* return tsUrls
MediaResult(urls) == Resolved(urls)

\* the locator parseM3u8 is called with
M3u8Url == << "http://", "h", "/", "v", "/", "index" >>

\* the lines the text at M3u8Url is made of
Lines ==
  { << "#EXT-X-STREAM-INF:", "RESOLUTION=" >>,
    << "#EXT-X-STREAM-INF:", "BANDWIDTH=", "2" >>,
    << "#EXT-X-STREAM-INF:", "AVERAGE-", "BANDWIDTH=", "3", ",",
       "BANDWIDTH=", "1" >>,
    << "#EXTINF:" >>,
    << "#", "#EXT-X-STREAM-INF:" >>,
    << " " >>,
    << "hi" >>,
    << "/", "q", "/", "lo" >>,
    << " ", "http://", "g", "/", "mid", "\t" >> }

Texts == UNION {[1 .. n -> Lines] : n \in 1 .. MaxLines}

\* what the server holds at the other locators, by the name of the file:
\* two single-level playlists, a multi-rendition playlist of the two, and
\* the empty text elsewhere
Rendition(url) ==
  LET name == url[Len(url)]
  IN  CASE name = "hi" ->
             << << "#EXTM3U" >>, << "#EXTINF:" >>, << "s1" >>,
                << "#EXTINF:" >>, << "/", "w", "/", "s2" >>, << >> >>
        [] name = "lo" ->
             << << "#EXTINF:" >>, << " ", "http://", "g", "/", "s3" >> >>
        [] name = "mid" ->
             << << "#EXT-X-STREAM-INF:", "BANDWIDTH=", "1" >>, << "lo" >>,
                << "#EXT-X-STREAM-INF:", "BANDWIDTH=", "2" >>, << "hi" >> >>
        [] OTHER -> << << >> >>

\* await response.text()
TextAt(url) == IF url = M3u8Url THEN playlist ELSE Rendition(url)

\* no parseM3u8 call is studied
ParserIdle ==
  /\ playlist = << << >> >>
  /\ callStack = << >>
  /\ fetched = << >>
  /\ parseResult = Pending

\* ---- initial state ----
Init ==
  /\ episodes \in 0 .. MaxEpisodes
  /\ maxConcurrent \in 0 .. MaxConcurrent
  /\ aborted \in BOOLEAN
  /\ plPc = "start"
  /\ i = 0
  /\ dvPc = [e \in Episodes |-> "idle"]
  /\ dvError = [e \in Episodes |-> "none"]
  /\ resolved = [e \in Episodes |-> FALSE]
  /\ tsUrls = [e \in Episodes |-> << >>]
  /\ tsBuffers = [e \in Episodes |-> << >>]
  /\ downloadedCount = [e \in Episodes |-> 0]
  /\ taskQueue = [e \in Episodes |-> << >>]
  /\ worker = [e \in Episodes |-> [w \in Workers |-> Idle]]
  /\ fetchCalls = [e \in Episodes |-> [k \in 0 .. (MaxSegments - 1) |-> 0]]
  /\ failures = 0
  /\ outOfOrder = [e \in Episodes |-> FALSE]
  /\ progressLog = [e \in Episodes |-> << >>]
  /\ saved = << >>
  /\ ParserIdle

\* ---- the caller of abort() ----
SetToken ==
  /\ ~aborted
  /\ aborted' = TRUE
  /\ UNCHANGED << args, plPc, i, dvPc, dvError, resolved, tsUrls, scheduler,
                  results, failures, saved >>

\* ---- downloadPlaylist ----
\* One pass of the for loop: the loop test, the abort check and the call of
\* downloadVideo, which runs up to the fetch inside parseM3u8.
PlaylistIterate(j) ==
  /\ i' = j
  /\ IF j >= episodes \/ aborted
       THEN /\ plPc' = "returned"
            /\ UNCHANGED dvPc
       ELSE /\ plPc' = "await"
            /\ dvPc' = [dvPc EXCEPT ![j] = "parsing"]
  /\ UNCHANGED << args, aborted, dvError, resolved, tsUrls, scheduler,
                  results, failures, saved >>

\* the call of downloadPlaylist
PlaylistStart ==
  /\ plPc = "start"
  /\ PlaylistIterate(0)

\* await downloadVideo(...) returns and the loop goes on
PlaylistNext ==
  /\ plPc = "await"
  /\ Awaited(dvPc[i])
  /\ dvPc[i] # "threw"
  /\ PlaylistIterate(i + 1)

\* mutant: the catch of downloadPlaylist swallows the error
PlaylistCatchSwallows ==
  /\ plPc = "await"
  /\ dvPc[i] = "threw"
  /\ plPc' = "returned"
  /\ UNCHANGED << args, aborted, i, dvPc, dvError, resolved, tsUrls,
                  scheduler, results, failures, saved >>

\* catch (error) of downloadPlaylist
PlaylistCatch ==
  /\ plPc = "await"
  /\ dvPc[i] = "threw"
  /\ plPc' = IF aborted THEN "returned" ELSE "threw"
  /\ UNCHANGED << args, aborted, i, dvPc, dvError, resolved, tsUrls,
                  scheduler, results, failures, saved >>

\* ---- downloadVideo ----
\* mutant: the catch of downloadVideo returns whatever the signal says
VideoCatchSwallows(e, cause) ==
  /\ dvPc' = [dvPc EXCEPT ![e] = "returned"]
  /\ UNCHANGED dvError

\* mutant: the catch of downloadVideo rethrows whatever the signal says
VideoCatchAlwaysThrows(e, cause) ==
  /\ dvPc' = [dvPc EXCEPT ![e] = "threw"]
  /\ dvError' = [dvError EXCEPT ![e] = cause]

\* catch (error) of downloadVideo
VideoCatch(e, cause) ==
  IF aborted
    THEN /\ dvPc' = [dvPc EXCEPT ![e] = "returned"]
         /\ UNCHANGED dvError
    ELSE /\ dvPc' = [dvPc EXCEPT ![e] = "threw"]
         /\ dvError' = [dvError EXCEPT ![e] = cause]

\* parseM3u8 rejects
ParseFail(e) ==
  /\ dvPc[e] = "parsing"
  /\ VideoCatch(e, "parse")
  /\ UNCHANGED << args, aborted, plPc, i, resolved, tsUrls, scheduler,
                  results, failures, saved >>

\* parseM3u8 resolves with n locators; downloadVideo runs up to
\* await Promise.all(activeTasks)
ParseDone(e, n) ==
  /\ dvPc[e] = "parsing"
  /\ LET urls == [k \in 0 .. (n - 1) |-> Url(e, k)]
         st0  == [queue |-> InitialQueue(urls), ab |-> aborted,
                  workers |-> worker[e], calls |-> fetchCalls[e]]
         st   == Spawn(1, NumWorkers(maxConcurrent, n), st0)
     IN  /\ resolved' = [resolved EXCEPT ![e] = TRUE]
         /\ tsUrls' = [tsUrls EXCEPT ![e] = urls]
         /\ IF IsEmptyPlaylist(urls)
              THEN /\ VideoCatch(e, "empty")
                   /\ UNCHANGED << tsBuffers, scheduler >>
              ELSE /\ tsBuffers' = [tsBuffers EXCEPT ![e] = NewArray(n)]
                   /\ UNCHANGED dvError
                   /\ IF aborted
                        THEN /\ dvPc' = [dvPc EXCEPT ![e] = "merging"]
                             /\ UNCHANGED scheduler
                        ELSE /\ dvPc' = [dvPc EXCEPT ![e] = "downloading"]
                             /\ taskQueue' = [taskQueue EXCEPT ![e] = st.queue]
                             /\ worker' = [worker EXCEPT ![e] = st.workers]
                             /\ fetchCalls' =
                                  [fetchCalls EXCEPT ![e] = st.calls]
  /\ UNCHANGED << args, aborted, plPc, i, downloadedCount, outOfOrder,
                  progressLog, failures, saved >>

\* downloadTsSegment resolves for worker w of episode e
FetchSucceed(e, w) ==
  /\ worker[e][w].pc = "fetching"
  /\ LET index  == worker[e][w].task[1]
         tsUrl  == worker[e][w].task[2]
         count  == downloadedCount[e] + 1
         total  == Length(tsUrls[e])
         r      == ProcessTask(taskQueue[e], aborted)
     IN  /\ tsBuffers' = [tsBuffers EXCEPT
              ![e] = StoreBuffer(@, index, downloadedCount[e],
                                 SegmentData(tsUrl))]
         /\ downloadedCount' = [downloadedCount EXCEPT ![e] = count]
         /\ outOfOrder' = [outOfOrder EXCEPT
              ![e] = @ \/ \E k \in 0 .. (index - 1) : ~tsBuffers[e][k].filled]
         /\ progressLog' = [progressLog EXCEPT
              ![e] = Append(@, << Round(count, total), count, total >>)]
         /\ taskQueue' = [taskQueue EXCEPT ![e] = r.queue]
         /\ worker' = [worker EXCEPT ![e][w] = r.worker]
         /\ fetchCalls' = [fetchCalls EXCEPT ![e] = CountCall(@, r.worker)]
  /\ UNCHANGED << args, aborted, plPc, i, dvPc, dvError, resolved, tsUrls,
                  failures, saved >>

\* downloadTsSegment rejects for worker w of episode e
FetchFail(e, w) ==
  /\ worker[e][w].pc = "fetching"
  /\ aborted \/ failures < MaxFailures
  /\ IF aborted
       THEN /\ worker' = [worker EXCEPT ![e][w] = Exited]
            /\ UNCHANGED << taskQueue, fetchCalls, failures >>
       ELSE LET r == ProcessTask(Requeue(taskQueue[e], worker[e][w].task),
                                 aborted)
            IN  /\ taskQueue' = [taskQueue EXCEPT ![e] = r.queue]
                /\ worker' = [worker EXCEPT ![e][w] = r.worker]
                /\ fetchCalls' =
                     [fetchCalls EXCEPT ![e] = CountCall(@, r.worker)]
                /\ failures' = failures + 1
  /\ UNCHANGED << args, aborted, plPc, i, dvPc, dvError, resolved, tsUrls,
                  results, saved >>

\* Promise.all(activeTasks) resolves: every started worker has exited
AllSettled(ws) == \A w \in Workers : ws[w].pc # "fetching"

\* the rest of downloadInParallel, after await Promise.all(activeTasks)
WorkersDone(e) ==
  /\ dvPc[e] = "downloading"
  /\ AllSettled(worker[e])
  /\ IF AllDownloaded(tsBuffers[e])
       THEN /\ dvPc' = [dvPc EXCEPT ![e] = "merging"]
            /\ UNCHANGED dvError
       ELSE VideoCatch(e, "partial")
  /\ UNCHANGED << args, aborted, plPc, i, resolved, tsUrls, scheduler,
                  results, failures, saved >>

\* after await downloadInParallel(): mergeArrayBuffers and saveBlobToFile
MergeAndSave(e) ==
  /\ dvPc[e] = "merging"
  /\ LET r == MergeArrayBuffers(tsBuffers[e])
     IN  IF r.ok
           THEN /\ saved' = Append(saved, [filename |-> e, blob |-> r.bytes])
                /\ dvPc' = [dvPc EXCEPT ![e] = "returned"]
                /\ UNCHANGED dvError
           ELSE /\ VideoCatch(e, "type")
                /\ UNCHANGED saved
  /\ UNCHANGED << args, aborted, plPc, i, resolved, tsUrls, scheduler,
                  results, failures >>

Next ==
  \/ SetToken
  \/ PlaylistStart
  \/ PlaylistNext
  \/ PlaylistCatch
  \/ \E e \in Episodes : ParseFail(e)
  \/ \E e \in Episodes : \E n \in 0 .. MaxSegments : ParseDone(e, n)
  \/ \E e \in Episodes : \E w \in Workers : FetchSucceed(e, w)
  \/ \E e \in Episodes : \E w \in Workers : FetchFail(e, w)
  \/ \E e \in Episodes : WorkersDone(e)
  \/ \E e \in Episodes : MergeAndSave(e)

Spec == Init /\ [][Next]_vars

\* The runs in which abort() is never called, under the scheduling the
\* event loop and a fetcher that answers guarantee: every continuation that
\* is ready runs, and a segment fetch that is retried succeeds in the end.
InitLive == Init /\ ~aborted

NextLive ==
  \/ PlaylistStart
  \/ PlaylistNext
  \/ PlaylistCatch
  \/ \E e \in Episodes : ParseFail(e)
  \/ \E e \in Episodes : \E n \in 0 .. MaxSegments : ParseDone(e, n)
  \/ \E e \in Episodes : \E w \in Workers : FetchSucceed(e, w)
  \/ \E e \in Episodes : \E w \in Workers : FetchFail(e, w)
  \/ \E e \in Episodes : WorkersDone(e)
  \/ \E e \in Episodes : MergeAndSave(e)

LiveSpec ==
  /\ InitLive
  /\ [][NextLive]_vars
  /\ WF_vars(PlaylistStart)
  /\ WF_vars(PlaylistNext)
  /\ WF_vars(PlaylistCatch)
  /\ \A e \in Episodes :
       /\ WF_vars(ParseFail(e) \/ \E n \in 0 .. MaxSegments : ParseDone(e, n))
       /\ WF_vars(WorkersDone(e))
       /\ WF_vars(MergeAndSave(e))
       /\ \A w \in Workers : WF_vars(FetchSucceed(e, w))

\* ---- a parseM3u8 call on its own ----
InitParse ==
  /\ episodes = 0
  /\ maxConcurrent = 0
  /\ aborted = FALSE
  /\ plPc = "start"
  /\ i = 0
  /\ dvPc = [e \in Episodes |-> "idle"]
  /\ dvError = [e \in Episodes |-> "none"]
  /\ resolved = [e \in Episodes |-> FALSE]
  /\ tsUrls = [e \in Episodes |-> << >>]
  /\ tsBuffers = [e \in Episodes |-> << >>]
  /\ downloadedCount = [e \in Episodes |-> 0]
  /\ taskQueue = [e \in Episodes |-> << >>]
  /\ worker = [e \in Episodes |-> [w \in Workers |-> Idle]]
  /\ fetchCalls = [e \in Episodes |-> [k \in 0 .. (MaxSegments - 1) |-> 0]]
  /\ failures = 0
  /\ outOfOrder = [e \in Episodes |-> FALSE]
  /\ progressLog = [e \in Episodes |-> << >>]
  /\ saved = << >>
  /\ playlist \in Texts
  /\ callStack = << M3u8Url >>
  /\ fetched = << M3u8Url >>
  /\ parseResult = Pending

pipeline == << episodes, maxConcurrent, aborted, plPc, i, dvPc, dvError,
               resolved, tsUrls, scheduler, results, failures, saved >>

\* the innermost call, the one whose fetch is pending
Innermost == callStack[Len(callStack)]
Pop(stack) == SubSeq(stack, 1, Len(stack) - 1)

\* await fetch(m3u8Url) rejects: the catch of the innermost call rethrows
FetchRejects ==
  /\ callStack # << >>
  /\ parseResult = Pending
  /\ parseResult' = Rejected(Wrap(<< "fetch failed" >>))
  /\ callStack' = Pop(callStack)
  /\ UNCHANGED << pipeline, playlist, fetched >>

\* the text arrives and holds the marker: the master branch, up to the
\* fetch of the recursive call or to the throw
ParseMaster ==
  /\ callStack # << >>
  /\ parseResult = Pending
  /\ LET text == TextAt(Innermost)
         qualityPlaylists == MasterLoop(Innermost, text, 1, << >>)
         sorted == SortByQuality(qualityPlaylists, Len(qualityPlaylists))
     IN  /\ IsMasterPlaylist(text)
         /\ IF Len(qualityPlaylists) = 0
              THEN /\ parseResult' =
                        Rejected(Wrap(<< "no quality playlist" >>))
                   /\ callStack' = Pop(callStack)
                   /\ UNCHANGED fetched
              ELSE /\ callStack' = Append(callStack, sorted[1].url)
                   /\ fetched' = Append(fetched, sorted[1].url)
                   /\ UNCHANGED parseResult
  /\ UNCHANGED << pipeline, playlist >>

\* the text arrives without the marker: the single-level branch
ParseMedia ==
  /\ callStack # << >>
  /\ parseResult = Pending
  /\ LET text == TextAt(Innermost)
     IN  /\ ~IsMasterPlaylist(text)
         /\ parseResult' = MediaResult(MediaLoop(Innermost, text, 1, << >>))
  /\ callStack' = Pop(callStack)
  /\ UNCHANGED << pipeline, playlist, fetched >>

\* return await parseM3u8(bestQualityPlaylist) of a calling parseM3u8
ReturnAwait ==
  /\ callStack # << >>
  /\ parseResult.kind = "value"
  /\ callStack' = Pop(callStack)
  /\ UNCHANGED << pipeline, playlist, fetched, parseResult >>

\* the recursive call rejected: the catch of the calling parseM3u8 wraps
\* the error once more
Rethrow ==
  /\ callStack # << >>
  /\ parseResult.kind = "error"
  /\ parseResult' = Rejected(Wrap(parseResult.message))
  /\ callStack' = Pop(callStack)
  /\ UNCHANGED << pipeline, playlist, fetched >>

NextParse ==
  \/ FetchRejects
  \/ ParseMaster
  \/ ParseMedia
  \/ ReturnAwait
  \/ Rethrow

ParseSpec == InitParse /\ [][NextParse]_vars

\* ---- vocabulary of the properties ----
Min(a, b) == IF a < b THEN a ELSE b
Started(e)  == {w \in Workers : worker[e][w].pc # "none"}
InFlight(e) == {w \in Workers : worker[e][w].pc = "fetching"}
Running(pc) == pc \in {"parsing", "downloading", "merging"}
Settled(pc) == pc \in {"returned", "threw"}
SavedFor(e) == {j \in 1 .. Len(saved) : saved[j].filename = e}
AllFilled(e) ==
  /\ Length(tsBuffers[e]) = Length(tsUrls[e])
  /\ \A k \in DOMAIN tsBuffers[e] : tsBuffers[e][k].filled
Retried(e) == \E k \in DOMAIN tsUrls[e] : fetchCalls[e][k] >= 2
Occurrences(bytes, b) == Cardinality({j \in 1 .. Len(bytes) : bytes[j] = b})

RECURSIVE IndexOrderStream(_, _)
\* the bytes of the first n segments of urls, one segment after the other
IndexOrderStream(urls, n) ==
  IF n = 0 THEN << >>
  ELSE IndexOrderStream(urls, n - 1) \o SegmentData(urls[n - 1])

\* C1: with N resolved segments and concurrency c, a scheduler run starts
\* exactly min(c, N) workers, and at most min(c, N) segment fetches are in
\* flight at the same time, whatever fetches succeed, fail or are retried.
C1_WorkerPool ==
  \A e \in Episodes :
    LET cap == Min(maxConcurrent, Length(tsUrls[e]))
    IN  /\ Cardinality(InFlight(e)) <= cap
        /\ dvPc[e] = "downloading" => Cardinality(Started(e)) = cap

\* a run with more segments than workers: one segment is stored, another
\* one is being fetched again after a failure, every worker is fetching
C1_Witness ==
  \E e \in Episodes :
    /\ dvPc[e] = "downloading"
    /\ maxConcurrent >= 1
    /\ maxConcurrent < Length(tsUrls[e])
    /\ Retried(e)
    /\ downloadedCount[e] >= 1
    /\ Cardinality(InFlight(e)) = maxConcurrent

\* C2: whatever the order in which the fetches complete, the blob handed to
\* the sink is the concatenation of the segments in index order.
C2_IndexOrder ==
  \A j \in 1 .. Len(saved) :
    LET e == saved[j].filename
    IN  saved[j].blob = IndexOrderStream(tsUrls[e], Length(tsUrls[e]))

\* a blob was saved for an episode whose segments completed out of index
\* order, one of them after a retry
C2_Witness ==
  \E e \in Episodes :
    /\ SavedFor(e) # {}
    /\ outOfOrder[e]
    /\ Retried(e)

\* C3: a task whose fetch fails K times and then succeeds is represented
\* exactly once in the assembled output, and downloadedCount never exceeds
\* the number of tasks.
C3_RetryOnce ==
  \A e \in Episodes :
    /\ downloadedCount[e] <= Length(tsUrls[e])
    /\ \A j \in SavedFor(e) : \A k \in DOMAIN tsUrls[e] :
         Occurrences(saved[j].blob, tsUrls[e][k])
           = Len(SegmentData(tsUrls[e][k]))

\* a blob was saved after the fetch of one of its segments had failed
C3_Witness ==
  \E e \in Episodes :
    /\ SavedFor(e) # {}
    /\ \E k \in DOMAIN tsUrls[e] : fetchCalls[e][k] = MaxFailures + 1
    /\ downloadedCount[e] = Length(tsUrls[e])

\* C4: no step taken with the token set calls downloadTsSegment, neither
\* for a first attempt nor for a retry.
C4_NoFetchAfterAbort ==
  [][aborted => fetchCalls' = fetchCalls]_vars

\* the token was set while tasks were queued and fetches in flight; the
\* workers have exited and the queued tasks were never fetched
C4_Witness ==
  \E e \in Episodes :
    /\ aborted
    /\ taskQueue[e] # << >>
    /\ Started(e) # {}
    /\ AllSettled(worker[e])
    /\ \A q \in 1 .. Len(taskQueue[e]) : fetchCalls[e][taskQueue[e][q][1]] = 0

\* C5: once the token is set, neither a running downloadVideo nor a running
\* downloadPlaylist ends with an error.
C5_AbortIsSilent ==
  [][aborted =>
       /\ \A e \in Episodes : Running(dvPc[e]) => dvPc'[e] # "threw"
       /\ plPc \in {"start", "await"} => plPc' # "threw"]_vars

\* a series cancelled in the middle of an episode: slots are unfilled,
\* fetches had been made, and both calls returned
C5_Witness ==
  \E e \in Episodes :
    /\ aborted
    /\ plPc = "returned"
    /\ dvPc[e] = "returned"
    /\ Length(tsUrls[e]) >= 2
    /\ downloadedCount[e] >= 1
    /\ ~AllFilled(e)

\* C6: the sink is invoked at most once for a downloadVideo call, and only
\* when every slot of tsBuffers is filled.
C6_SinkOnceComplete ==
  \A e \in Episodes :
    /\ Cardinality(SavedFor(e)) <= 1
    /\ SavedFor(e) # {} => AllFilled(e) /\ dvPc[e] = "returned"

\* one episode was saved after a retry, the next one was cancelled with
\* unfilled slots and nothing was saved for it
C6_Witness ==
  \E e1, e2 \in Episodes :
    /\ Cardinality(SavedFor(e1)) = 1
    /\ Retried(e1)
    /\ aborted
    /\ dvPc[e2] = "returned"
    /\ resolved[e2]
    /\ Length(tsUrls[e2]) > 0
    /\ ~AllFilled(e2)
    /\ SavedFor(e2) = {}

\* the outcome C7 promises for episode e
Completed(e) ==
  /\ dvPc[e] = "returned"
  /\ InFlight(e) = {}
  /\ AllFilled(e)
  /\ Cardinality(SavedFor(e)) = 1

\* C7: a scheduler run with concurrency >= 1 whose token is never set and
\* whose fetches succeed after finitely many failures ends with every
\* worker exited, every slot filled and the sink invoked exactly once.
C7_EventuallyCompletes ==
  \A e \in Episodes :
    (dvPc[e] = "downloading" /\ maxConcurrent >= 1) ~> Completed(e)

\* a run that completed without cancellation after a failed fetch, with
\* fewer workers than segments
C7_Witness ==
  \E e \in Episodes :
    /\ ~aborted
    /\ Completed(e)
    /\ Retried(e)
    /\ maxConcurrent < Length(tsUrls[e])

NoFetchFor(e) == \A k \in DOMAIN fetchCalls[e] : fetchCalls[e][k] = 0
EmptyResolved(e) == resolved[e] /\ Length(tsUrls[e]) = 0

\* C8 as stated: when playlist resolution yields zero segments, downloadVideo
\* fails with the empty-playlist error, no segment fetch is attempted and
\* the sink is not invoked.
C8_EmptyPlaylistFails ==
  \A e \in Episodes :
    EmptyResolved(e) =>
      /\ dvPc[e] = "threw"
      /\ dvError[e] = "empty"
      /\ NoFetchFor(e)
      /\ SavedFor(e) = {}

\* C8 amended: when playlist resolution yields zero segments, no worker is
\* started, no segment fetch is attempted and the sink is not invoked;
\* downloadVideo fails with the empty-playlist error if the token is unset
\* when the resolution completes, and returns silently if it is set.
C8_EmptyPlaylistNoFetch ==
  /\ [](\A e \in Episodes :
          EmptyResolved(e) =>
            /\ Settled(dvPc[e])
            /\ dvPc[e] = "threw" => dvError[e] = "empty"
            /\ dvPc[e] = "returned" => aborted
            /\ Started(e) = {}
            /\ NoFetchFor(e)
            /\ SavedFor(e) = {})
  /\ [][\A e \in Episodes :
          (~resolved[e] /\ resolved'[e] /\ Length(tsUrls'[e]) = 0) =>
            dvPc'[e] = IF aborted THEN "returned" ELSE "threw"]_vars

\* an empty playlist surfaced as a failure of the series
C8_Witness ==
  \E e \in Episodes :
    /\ EmptyResolved(e)
    /\ dvPc[e] = "threw"
    /\ dvError[e] = "empty"
    /\ plPc = "threw"

\* what C9 and its amendment say about the items around a failed item k
AfterFailureOf(k) ==
  /\ \A j \in Episodes : j >= k => SavedFor(j) = {}
  /\ \A j \in Episodes : j > k =>
       dvPc[j] = "idle" /\ ~resolved[j] /\ NoFetchFor(j)
  /\ \A j \in Episodes : j < k => dvPc[j] = "returned"

\* C9 as stated: if item k of a series fails for a reason other than
\* cancellation, the series ends with a download-failed error, the sink is
\* not invoked for item k or a later item, and no later item is resolved or
\* fetched.
C9_SeriesFails ==
  \A k \in Episodes :
    (dvPc[k] = "threw" /\ Settled(plPc)) =>
      plPc = "threw" /\ AfterFailureOf(k)

\* C9 amended: if item k fails, the sink is never invoked for item k or a
\* later item, no later item is resolved or fetched, and what was delivered
\* stays delivered; the series ends with a download-failed error if the
\* token is unset when the series handles the failure, and returns silently
\* if the token has been set by then.
C9_SeriesStops ==
  /\ [](\A k \in Episodes :
          dvPc[k] = "threw" =>
            /\ i = k
            /\ plPc \in {"await", "returned", "threw"}
            /\ plPc = "returned" => aborted
            /\ AfterFailureOf(k))
  /\ [][/\ (plPc = "await" /\ dvPc[i] = "threw" /\ plPc' # plPc) =>
             plPc' = IF aborted THEN "returned" ELSE "threw"
        /\ Settled(plPc) => plPc' = plPc
        /\ Len(saved') >= Len(saved)
        /\ SubSeq(saved', 1, Len(saved)) = saved]_vars

\* a series of two: the first item was delivered, the resolution of the
\* second one failed and the series ended with the error
C9_Witness ==
  /\ episodes = 2
  /\ Cardinality(SavedFor(0)) = 1
  /\ dvPc[1] = "threw"
  /\ dvError[1] = "parse"
  /\ plPc = "threw"

\* C10: the items of a series run one after the other, in list order: an
\* item is started only when every earlier item has returned and none of
\* its workers is alive; workers are alive only while their own item is
\* downloading; once the token is set no item is started and the series
\* does not end with an error.
C10_Sequential ==
  /\ [](\A e \in Episodes :
          /\ dvPc[e] # "idle" => e <= i /\ e < episodes
          /\ InFlight(e) # {} => dvPc[e] = "downloading"
          /\ \A d \in Episodes :
               (d < e /\ dvPc[e] # "idle") =>
                 dvPc[d] = "returned" /\ InFlight(d) = {})
  /\ [][aborted =>
          /\ \A e \in Episodes : dvPc[e] = "idle" => dvPc'[e] = "idle"
          /\ ~Settled(plPc) => plPc' \in {plPc, "returned"}]_vars

\* the second item of a series is being fetched; the first one, which
\* needed a retry, is complete and has no worker left
C10_Witness ==
  /\ episodes = 2
  /\ Completed(0)
  /\ Retried(0)
  /\ dvPc[1] = "downloading"
  /\ InFlight(1) # {}

\* C11: in a downloadVideo run of N segments onProgress is invoked once per
\* stored segment, the completed counts being 1, 2, ... in order (a retry
\* neither repeats nor lowers one) and the total being N each time; a run
\* that stores every segment has invoked it exactly N times, the last time
\* with the percentage 100.
C11_Progress ==
  \A e \in Episodes :
    LET log == progressLog[e]
        n   == Length(tsUrls[e])
    IN  /\ Len(log) = downloadedCount[e]
        /\ Len(log) <= n
        /\ \A j \in 1 .. Len(log) :
             /\ log[j][2] = j
             /\ log[j][3] = n
             /\ log[j][1] \in 0 .. 100
             /\ j > 1 => log[j][1] >= log[j - 1][1]
        /\ (n >= 1 /\ AllFilled(e)) => Len(log) = n /\ log[n][1] = 100

\* a run that was not cancelled and stored every one of its segments, one
\* of them after a failed fetch
C11_Witness ==
  \E e \in Episodes :
    /\ ~aborted
    /\ Completed(e)
    /\ Length(tsUrls[e]) = MaxSegments
    /\ Retried(e)
    /\ Len(progressLog[e]) = MaxSegments
    /\ progressLog[e][MaxSegments] = << 100, MaxSegments, MaxSegments >>

\* the places a task of episode e with index k is in
InQueue(e, k) ==
  Cardinality({q \in 1 .. Len(taskQueue[e]) : taskQueue[e][q][1] = k})
InFlightWith(e, k) ==
  Cardinality({w \in InFlight(e) : worker[e][w].task[1] = k})
InSlot(e, k) == IF tsBuffers[e][k].filled THEN 1 ELSE 0
Places(e, k) == InQueue(e, k) + InFlightWith(e, k) + InSlot(e, k)

\* C14 as stated: in every state of a scheduler run, after a fetch failure
\* and after the token has been set too, every task is in exactly one of
\* the work queue, the in-flight set and the completed set.
C14_ExactlyOnePlace ==
  \A e \in Episodes :
    dvPc[e] = "downloading" =>
      \A k \in DOMAIN tsUrls[e] : Places(e, k) = 1

\* C14 amended: in every state after the scheduler has filled its queue, a
\* task is never in two of the work queue, the in-flight set and the
\* completed set, and while the token is unset it is in exactly one of
\* them; once the token is set a task whose fetch rejects is dropped and
\* is in none of them.
C14_AtMostOnePlace ==
  /\ [](\A e \in Episodes :
          Length(tsBuffers[e]) > 0 =>
            \A k \in DOMAIN tsUrls[e] :
              /\ Places(e, k) <= 1
              /\ (~aborted /\ dvPc[e] = "downloading") => Places(e, k) = 1)
  /\ [][\A e \in Episodes : \A k \in DOMAIN tsUrls[e] :
          (Length(tsBuffers[e]) > 0 /\ Places(e, k) = 1
             /\ Length(tsBuffers'[e]) > 0 /\ Places(e, k)' = 0) =>
            /\ aborted
            /\ InFlightWith(e, k) = 1]_vars

\* the token is unset and a task is in flight again after a failed fetch
\* while another task is stored or waits in the queue
C14_Witness ==
  \E e \in Episodes :
    /\ ~aborted
    /\ dvPc[e] = "downloading"
    /\ failures >= 1
    /\ \E k \in DOMAIN tsUrls[e] : InFlightWith(e, k) = 1 /\ fetchCalls[e][k] >= 2
    /\ \/ downloadedCount[e] >= 1
       \/ taskQueue[e] # << >>

\* C15: when every worker has exited, the token is unset and a slot is
\* unfilled (maxConcurrent <= 0 with N >= 1, for one), the run fails with
\* the partial-download error, which downloadVideo surfaces as a
\* download-failed error without invoking the sink.
C15_PartialDownloadFails ==
  \A e \in Episodes :
    (/\ ~aborted
     /\ Settled(dvPc[e])
     /\ Length(tsBuffers[e]) >= 1
     /\ ~AllFilled(e)) =>
      /\ dvPc[e] = "threw"
      /\ dvError[e] = "partial"
      /\ SavedFor(e) = {}

\* C16: a fetch that fails with the token unset puts its task back at the
\* front of the queue, and the worker that failed it claims it again before
\* any other queued task; the number of failures does not matter, and while
\* a fetch is in flight the run has neither returned nor reported an
\* error; with the token set a failed fetch ends its worker, nothing is
\* fetched again and the run does not end with an error.
C16_RetryAtFront ==
  /\ [](\A e \in Episodes : InFlight(e) # {} => ~Settled(dvPc[e]))
  /\ [][failures' # failures =>
          /\ ~aborted
          /\ failures' = failures + 1
          /\ worker' = worker
          /\ taskQueue' = taskQueue
          /\ dvPc' = dvPc /\ dvError' = dvError
          /\ \E e \in Episodes : \E k \in DOMAIN tsUrls[e] :
               /\ fetchCalls' = [fetchCalls EXCEPT ![e][k] = @ + 1]
               /\ InFlightWith(e, k) = 1]_vars
  /\ [][\A e \in Episodes : \A w \in Workers :
          (aborted /\ worker[e][w].pc = "fetching"
             /\ worker'[e][w] # worker[e][w]) =>
            /\ worker'[e][w] = Exited
            /\ fetchCalls' = fetchCalls
            /\ dvPc'[e] # "threw"]_vars

\* a task is being fetched for the (MaxFailures + 1)-th time, by a single
\* worker, while a task that was never fetched waits in the queue
C16_Witness ==
  \E e \in Episodes : \E k \in DOMAIN tsUrls[e] :
    /\ ~aborted
    /\ maxConcurrent = 1
    /\ failures = MaxFailures
    /\ InFlightWith(e, k) = 1
    /\ fetchCalls[e][k] = MaxFailures + 1
    /\ taskQueue[e] # << >>
    /\ fetchCalls[e][Head(taskQueue[e])[1]] = 0
    /\ dvPc[e] = "downloading"

\* C17: no task is in flight at two workers at the same time, a slot whose
\* task is queued or in flight is not filled, so that a slot is written at
\* most once, and downloadedCount is the number of filled slots.
C17_NoDoubleClaim ==
  \A e \in Episodes :
    /\ \A k \in DOMAIN tsUrls[e] : InFlightWith(e, k) <= 1
    /\ \A k \in DOMAIN tsBuffers[e] :
         tsBuffers[e][k].filled =>
           InFlightWith(e, k) = 0 /\ InQueue(e, k) = 0
    /\ downloadedCount[e]
         = Cardinality({k \in DOMAIN tsBuffers[e] : tsBuffers[e][k].filled})

\* two workers fetch two different tasks, one of them for the second time
C17_Witness ==
  \E e \in Episodes : \E w1, w2 \in InFlight(e) :
    /\ w1 # w2
    /\ worker[e][w1].task[1] # worker[e][w2].task[1]
    /\ fetchCalls[e][worker[e][w1].task[1]] >= 2

\* C19: in a run with maxConcurrent >= 1 and N >= 1 whose token is never
\* set, whenever every worker has exited every slot is filled, also when a
\* worker found the queue empty while another one was still fetching; the
\* partial-download error is not raised in such a run, and no slot is
\* missing when the segments are merged.
C19_NoLostTask ==
  \A e \in Episodes :
    (~aborted /\ maxConcurrent >= 1 /\ Length(tsUrls[e]) >= 1) =>
      /\ (dvPc[e] \in {"downloading", "merging", "returned", "threw"}
            /\ AllSettled(worker[e])) => AllFilled(e)
      /\ dvError[e] \notin {"partial", "type"}
      /\ dvPc[e] # "threw"

\* one worker has exited on the empty queue while the other one, which is
\* fetching its task again after a failure, holds the last unfilled slot
C19_Witness ==
  \E e \in Episodes : \E w1, w2 \in Workers :
    /\ ~aborted
    /\ dvPc[e] = "downloading"
    /\ worker[e][w1] = Exited
    /\ worker[e][w2].pc = "fetching"
    /\ fetchCalls[e][worker[e][w2].task[1]] >= 2
    /\ taskQueue[e] = << >>
    /\ downloadedCount[e] = Length(tsUrls[e]) - 1

\* C20: what downloadVideo and downloadPlaylist do with an error depends on
\* the token when the catch block runs, not on the cause: with the token
\* set the call returns and the sink is not invoked, with the token unset
\* the call throws the download-failed error.  An error downloadVideo threw
\* with the token unset is swallowed by downloadPlaylist when the token is
\* set before its catch block runs.
C20_TokenAtCatch ==
  [][/\ \A e \in Episodes :
          (/\ \/ dvPc[e] = "parsing" /\ Settled(dvPc'[e])
              \/ /\ dvPc[e] = "merging"
                 /\ ~MergeArrayBuffers(tsBuffers[e]).ok
                 /\ dvPc'[e] # dvPc[e]) =>
            /\ dvPc'[e] = IF aborted THEN "returned" ELSE "threw"
            /\ saved' = saved
     /\ (plPc = "await" /\ dvPc[i] = "threw" /\ plPc' # plPc) =>
          /\ plPc' = IF aborted THEN "returned" ELSE "threw"
          /\ saved' = saved
          /\ dvPc' = dvPc]_vars

\* downloadVideo threw the empty-playlist error with the token unset, the
\* token was set before downloadPlaylist handled it, and the series
\* returned; nothing was saved
C20_Witness ==
  \E e \in Episodes :
    /\ dvPc[e] = "threw"
    /\ dvError[e] \in {"empty", "parse"}
    /\ aborted
    /\ plPc = "returned"
    /\ SavedFor(e) = {}

\* ---- vocabulary of the properties of parseM3u8 ----
\* a line that is neither blank nor a comment
IsSegmentLine(line) == Trim(line) # << >> /\ ~StartsWithHash(Trim(line))
SegmentLines(text) == SelectSeq(text, IsSegmentLine)
\* the rendition entries of a text: a marker line followed by a locator line
Entries(text) ==
  {p \in 1 .. (Len(text) - 1) :
     /\ StartsWith(Trim(text[p]), "#EXT-X-STREAM-INF:")
     /\ IsSegmentLine(text[p + 1])}
\* the value of the BANDWIDTH attribute of a marker line, 0 without one;
\* AVERAGE-BANDWIDTH is another attribute
AttrBandwidth(line) ==
  LET attrs == {p \in 1 .. (Len(line) - 1) :
                  /\ line[p] = "BANDWIDTH="
                  /\ line[p + 1] \in Digits
                  /\ (p > 1 => line[p - 1] # "AVERAGE-")}
  IN  IF attrs = {} THEN 0
      ELSE ParseInt(line[(CHOOSE p \in attrs : \A q \in attrs : p <= q) + 1])
LastFetched == fetched[Len(fetched)]
ParseSettled == callStack = << >> /\ parseResult # Pending
\* the message of an error that passed the catch of d calls
RECURSIVE Wrapped(_, _)
Wrapped(cause, d) == IF d = 0 THEN << cause >> ELSE Wrap(Wrapped(cause, d - 1))
Unwound == Len(fetched) - Len(callStack)

\* C12: from a multi-rendition playlist with at least one parsed entry
\* parseM3u8 recurses into a rendition whose BANDWIDTH attribute is
\* maximal among the parsed entries, an entry without a BANDWIDTH attribute
\* counting as 0, and it returns the segment list of that rendition.
C12_MaxBandwidth ==
  /\ \A j \in 1 .. (Len(fetched) - 1) :
       LET text == TextAt(fetched[j])
       IN  \E p \in Entries(text) :
             /\ fetched[j + 1] = PlaylistUrl(fetched[j], Trim(text[p + 1]))
             /\ \A q \in Entries(text) :
                  AttrBandwidth(Trim(text[q])) <= AttrBandwidth(Trim(text[p]))
  /\ (parseResult.kind = "value" /\ Len(fetched) >= 2) =>
       parseResult.value
         = MediaLoop(LastFetched, Rendition(LastFetched), 1, << >>)

\* C13: from a single-level playlist with N lines that are neither blank
\* nor comments parseM3u8 returns N locators, the k-th one being the
\* absolute locator the k-th such line resolves to, and k - 1 is the index
\* the scheduler queues the segment with and stores its buffer at.
C13_LineOrder ==
  parseResult.kind = "value" =>
    LET lines == SegmentLines(TextAt(LastFetched))
        n     == Len(lines)
        urls  == parseResult.value
        array == [k \in 0 .. (n - 1) |-> urls[k + 1]]
    IN  /\ ~IsMasterPlaylist(TextAt(LastFetched))
        /\ Len(urls) = n
        /\ \A k \in 1 .. n :
             /\ urls[k] = TsUrl(LastFetched, Trim(lines[k]))
             /\ Head(urls[k]) = "http://"
             /\ InitialQueue(array)[k] = << k - 1, urls[k] >>
             /\ StoreBuffer(NewArray(n), InitialQueue(array)[k][1], 0, << k >>)
                  = [NewArray(n) EXCEPT ![k - 1] = Filled(<< k >>)]

\* the playlist at http://h/v/index lists a relative locator, an absolute
\* path and an absolute locator among four lines, and the call returned
\* the three locators in that order
C13_Witness ==
  /\ ParseSettled
  /\ fetched = << M3u8Url >>
  /\ Len(playlist) = 4
  /\ parseResult.kind = "value"
  /\ parseResult.value = << << "http://", "h", "/", "v", "/", "hi" >>,
                            << "http://", "h", "/", "q", "/", "lo" >>,
                            << "http://", "g", "/", "mid" >> >>

\* C18 as stated: parseM3u8 fails when a multi-rendition playlist yields no
\* parsed rendition and when a single-level playlist has no segment line;
\* it never returns an empty list.
C18_NeverEmpty ==
  parseResult # Pending =>
    LET text == TextAt(LastFetched)
    IN  /\ parseResult.kind = "value" => parseResult.value # << >>
        /\ (IsMasterPlaylist(text) /\ Entries(text) = {}) =>
             parseResult.kind = "error"
        /\ (~IsMasterPlaylist(text) /\ SegmentLines(text) = << >>) =>
             parseResult.kind = "error"

\* C18 amended: parseM3u8 fails with the parse-failed error, caused by the
\* missing quality playlist, when a multi-rendition playlist yields no
\* parsed rendition; a single-level playlist without a segment line is no
\* error of parseM3u8, which returns the empty list for it, as it returns
\* the list of the segment lines for every single-level playlist it could
\* fetch.
C18_EmptyIsReturned ==
  parseResult # Pending =>
    LET text == TextAt(LastFetched)
        none == Wrapped("no quality playlist", Unwound)
        net  == Wrapped("fetch failed", Unwound)
    IN  /\ parseResult.kind = "error" => parseResult.message \in {none, net}
        /\ (IsMasterPlaylist(text) /\ Entries(text) = {}) =>
             parseResult.kind = "error"
        /\ parseResult.message = none =>
             IsMasterPlaylist(text) /\ Entries(text) = {}
        /\ ~IsMasterPlaylist(text) =>
             \/ parseResult.message = net
             \/ /\ parseResult.kind = "value"
                /\ Len(parseResult.value) = Len(SegmentLines(text))

\* a playlist of comments and blank lines: parseM3u8 returned the empty list
C18_Witness ==
  /\ ParseSettled
  /\ fetched = << M3u8Url >>
  /\ \E l \in 1 .. Len(playlist) : playlist[l] = << "#EXTINF:" >>
  /\ \E l \in 1 .. Len(playlist) : playlist[l] = << " " >>
  /\ parseResult = Resolved(<< >>)


====
